---- MODULE Spec2Model ----
(***************************************************************************)
(* A model of the plane allocator of libliftoff (src/display.c):          *)
(* hwc_display_create / hwc_display_destroy (plane discovery) and         *)
(* hwc_display_apply (clear, disable and match phases) with plane_apply   *)
(* and layer_choose_plane.  The kernel driver (libdrm calls) is the       *)
(* environment: its query results, append results and test-only answers   *)
(* are inputs.                                                             *)
(***************************************************************************)
EXTENDS Integers, Sequences, FiniteSets, TLC

\* ------------------------------------------------------------------ bounds
MaxPlanes == 2
MaxLayers == 2
MaxApplies == 2

\* ------------------------------------------------------- program constants
NULL == 0
EINVAL == 22
ERANGE == 34
DRM_MODE_ATOMIC_TEST_ONLY == 256

\* errno values of a test-only commit that are neither EINVAL nor ERANGE
OtherErrnos == {12}
\* the answers drmModeAtomicCommit can give: 0 or -errno
CommitResults == {0, -EINVAL, -ERANGE} \cup {-e : e \in OtherErrnos}

\* ------------------------------------------------------------- the device
PropNames == {"FB_ID", "CRTC_ID", "zpos"}

\* the driver's property ids (drm_prop->prop_id)
DrmPropId(name) ==
    CASE name = "FB_ID" -> 17
      [] name = "CRTC_ID" -> 20
      [] OTHER -> 33

DrmProps(names) == [k \in 1..Len(names) |-> [name |-> names[k], id |-> DrmPropId(names[k])]]

\* the kinds of plane a device can expose: its property list and CRTC mask
PlaneKinds ==
    { [props |-> DrmProps(<<"FB_ID", "CRTC_ID", "zpos">>), possible_crtcs |-> 3],
      [props |-> DrmProps(<<"CRTC_ID", "FB_ID">>), possible_crtcs |-> 1],
      [props |-> DrmProps(<<"CRTC_ID", "zpos">>), possible_crtcs |-> 3],
      [props |-> DrmProps(<<"FB_ID", "zpos">>), possible_crtcs |-> 3] }

\* plane ids the driver reports, in drmModeGetPlaneResources order
DrmPlaneId(i) == 9 + i

Devices ==
    UNION { { [i \in 1..n |-> [plane_id |-> DrmPlaneId(i),
                               possible_crtcs |-> k[i].possible_crtcs,
                               props |-> k[i].props]] :
                k \in [1..n -> PlaneKinds] } : n \in 0..MaxPlanes }

VARIABLES
    dev,        \* what the driver reports: a sequence of plane descriptors
    pc,         \* position of the program
    held,       \* resources acquired by hwc_display_create and not yet released
    lists_init, \* hwc_list_init has run on display->planes / display->outputs
    create_ret, \* what hwc_display_create returned: "none", "display", "null"
    planes,     \* display->planes: sequence of hwc_plane records
    outputs,    \* display->outputs: sequence of [crtc_id, layers]
    layers,     \* layer id -> hwc_layer record
    req,        \* the drmModeAtomicReq: sequence of [obj, prop, value]
    entry_req,  \* the request as it was when the current pass was entered
    cursor,     \* layer_choose_plane's local cursor
    oidx,       \* hwc_display_apply: position in display->outputs
    lidx,       \* hwc_display_apply: position in output->layers
    pidx,       \* position in display->planes of the running loop
    drv,        \* the driver's answers so far: <<plane id, layer>> -> result
    log,        \* driver calls of the current pass, in order
    result,     \* what hwc_display_apply returned: "none", "true", "false"
    napplies,   \* hwc_display_apply calls so far
    prev,       \* outcome of the pass before the current one, and whether
                \* something was changed between the two
    changed     \* the caller or the driver changed something since the last pass

vars == <<dev, pc, held, lists_init, create_ret, planes, outputs, layers, req,
          entry_req, cursor, oidx, lidx, pidx, drv, log, result, napplies, prev,
          changed>>

createVars == <<held, lists_init, create_ret>>
passVars == <<req, entry_req, cursor, oidx, lidx, pidx, drv, log, result, napplies>>

\* ---------------------------------------------------------------- resources
ResDisplay == <<"display", 0>>
ResFd == <<"drm_fd", 0>>
ResPlaneRes == <<"drm_plane_res", 0>>
ResPlane(id) == <<"plane", id>>
ResPlaneProps(id) == <<"plane_props", id>>

Init ==
    /\ dev \in Devices
    /\ pc = "start"
    /\ held = {}
    /\ lists_init = FALSE
    /\ create_ret = "none"
    /\ planes = <<>>
    /\ outputs = <<>>
    /\ layers = <<>>
    /\ req = <<>>
    /\ entry_req = <<>>
    /\ cursor = 0
    /\ oidx = 0
    /\ lidx = 0
    /\ pidx = 0
    /\ drv = [c \in {} |-> 0]
    /\ log = <<>>
    /\ result = "none"
    /\ napplies = 0
    /\ prev = [result |-> "none", pairing |-> <<>>, fail |-> 0, changed |-> FALSE]
    /\ changed = FALSE

\* ------------------------------------------------------------ construction
\* the calls of plane_create that can fail; <<"none", 0>> when none does
PlaneCreateFaults(d) ==
    { <<"none", 0>>, <<"calloc_plane", 0>>, <<"drmModeGetPlane", 0>>,
      <<"drmModeObjectGetProperties", 0>>, <<"calloc_props", 0>> }
    \cup { <<"drmModeGetProperty", k>> : k \in 1..Len(d.props) }

\* plane_create: the plane built from the driver's descriptor d, whether it
\* was linked into display->planes (ok), and what the call leaves allocated
plane_create(d, fault) ==
    LET rec == [id |-> d.plane_id,
                possible_crtcs |-> d.possible_crtcs,
                props |-> d.props,
                props_len |-> Len(d.props),
                layer |-> NULL]
    IN  CASE fault[1] = "calloc_plane" ->
               [ok |-> FALSE, plane |-> rec, left |-> {}]
          [] fault[1] \in {"drmModeGetPlane", "drmModeObjectGetProperties",
                           "calloc_props"} ->
               [ok |-> FALSE, plane |-> rec, left |-> {ResPlane(d.plane_id)}]
          [] fault[1] = "drmModeGetProperty" ->
               [ok |-> FALSE, plane |-> rec,
                left |-> {ResPlane(d.plane_id), ResPlaneProps(d.plane_id)}]
          [] OTHER ->
               [ok |-> TRUE, plane |-> rec,
                left |-> {ResPlane(d.plane_id), ResPlaneProps(d.plane_id)}]

\* plane_destroy for every plane linked in display->planes
PlanesResources(pl) ==
    UNION { {ResPlane(pl[i].id), ResPlaneProps(pl[i].id)} : i \in 1..Len(pl) }

\* hwc_display_destroy on an initialised plane list: what stays allocated
hwc_display_destroy(h, pl) == h \ ({ResDisplay, ResFd} \cup PlanesResources(pl))

\* what a traversal of a never-initialised (zeroed) list head can end in
UninitListOutcomes == {"destroy_segv", "destroy_corrupt"}

\* hwc_display_create, line 76: calloc of the display
CreateAlloc ==
    /\ pc = "start"
    /\ \E ok \in BOOLEAN :
          IF ok
          THEN /\ held' = {ResDisplay}
               /\ pc' = "dup"
               /\ create_ret' = create_ret
          ELSE /\ held' = held
               /\ pc' = "failed"
               /\ create_ret' = "null"
    /\ UNCHANGED <<prev, changed, dev, lists_init, planes, outputs, layers, passVars>>

\* hwc_display_create, lines 80-87: dup, then hwc_list_init of both lists;
\* a failed dup runs hwc_display_destroy on the zeroed list heads
CreateDup ==
    /\ pc = "dup"
    /\ \E ok \in BOOLEAN :
          IF ok
          THEN /\ held' = held \cup {ResFd}
               /\ lists_init' = TRUE
               /\ pc' = "resources"
          ELSE /\ held' = held
               /\ lists_init' = lists_init
               /\ pc' \in UninitListOutcomes
    /\ UNCHANGED <<prev, changed, dev, create_ret, planes, outputs, layers, passVars>>

\* hwc_display_create, lines 90-94: drmModeGetPlaneResources
CreateGetResources ==
    /\ pc = "resources"
    /\ \E ok \in BOOLEAN :
          IF ok
          THEN /\ held' = held \cup {ResPlaneRes}
               /\ pc' = "planes"
               /\ pidx' = 1
               /\ create_ret' = create_ret
          ELSE /\ held' = hwc_display_destroy(held, planes)
               /\ pc' = "failed"
               /\ pidx' = pidx
               /\ create_ret' = "null"
    /\ UNCHANGED <<prev, changed, dev, lists_init, planes, outputs, layers, req, entry_req,
                   cursor, oidx, lidx, drv, log, result, napplies>>

\* hwc_display_create, lines 96-101: one iteration of the plane_create loop
CreatePlane ==
    /\ pc = "planes"
    /\ pidx <= Len(dev)
    /\ \E fault \in PlaneCreateFaults(dev[pidx]) :
          LET r == plane_create(dev[pidx], fault)
          IN  IF r.ok
              THEN /\ planes' = Append(planes, r.plane)
                   /\ held' = held \cup r.left
                   /\ pidx' = pidx + 1
                   /\ pc' = pc
                   /\ create_ret' = create_ret
              ELSE /\ planes' = <<>>
                   /\ held' = hwc_display_destroy(held \cup r.left, planes)
                   /\ pidx' = pidx
                   /\ pc' = "failed"
                   /\ create_ret' = "null"
    /\ UNCHANGED <<prev, changed, dev, lists_init, outputs, layers, req, entry_req,
                   cursor, oidx, lidx, drv, log, result, napplies>>

\* hwc_display_create, lines 102-104: free the plane list, return the display
CreateReturn ==
    /\ pc = "planes"
    /\ pidx > Len(dev)
    /\ held' = held \ {ResPlaneRes}
    /\ create_ret' = "display"
    /\ pc' = "created"
    /\ UNCHANGED <<prev, changed, dev, lists_init, planes, outputs, layers, passVars>>

\* ------------------------------------------------- outputs and layers (input)
\* the desired property sets a layer can carry
LayerPropChoices ==
    { <<[name |-> "FB_ID", value |-> 7]>>,
      <<[name |-> "FB_ID", value |-> 7], [name |-> "zpos", value |-> 1]>> }

\* crtc ids of the display's outputs, in display->outputs order
Crtcs == <<5, 6>>

\* the layers of output k when layer l belongs to output a[l]
LayersOf(a, k) == SelectSeq([l \in 1..Len(a) |-> l], LAMBDA l : a[l] = k)

\* assignments of n layers to m outputs, layers numbered in list order
Assignments(n, m) ==
    { a \in [1..n -> 1..m] : \A i \in 1..n : \A j \in 1..n : i < j => a[i] <= a[j] }

\* hwc_output_create / hwc_layer_create / layer property setters: the caller
\* populates display->outputs after construction, with at most maxn layers
SetupOutputsUpTo(maxn) ==
    /\ pc = "created"
    /\ \E n \in 0..maxn : \E m \in 1..Len(Crtcs) :
         \E a \in Assignments(n, m) : \E pr \in [1..n -> LayerPropChoices] :
            /\ outputs' = [k \in 1..m |-> [crtc_id |-> Crtcs[k], layers |-> LayersOf(a, k)]]
            /\ layers' = [l \in 1..n |-> [props |-> pr[l],
                                          props_len |-> Len(pr[l]),
                                          output |-> a[l],
                                          plane |-> NULL]]
    /\ pc' = "idle"
    /\ UNCHANGED <<prev, changed, dev, createVars, planes, passVars>>

SetupOutputs == SetupOutputsUpTo(MaxLayers)

\* the same with one more layer
SetupOutputsWide == SetupOutputsUpTo(MaxLayers + 1)

\* ------------------------------------------------------ property application
\* plane_get_property: index of the first entry named name, NULL when none
RECURSIVE plane_get_property_from(_, _, _)
plane_get_property_from(plane, name, i) ==
    IF i > plane.props_len THEN NULL
    ELSE IF plane.props[i].name = name THEN i
    ELSE plane_get_property_from(plane, name, i + 1)

plane_get_property(plane, name) == plane_get_property_from(plane, name, 1)

\* a write addressed by the property's position in the plane's table
\* instead of its id
plane_set_prop_index(plane, prop, value, ok) ==
    [obj |-> plane.id, prop |-> prop, value |-> value, ok |-> ok]

\* plane_set_prop: the drmModeAtomicAddProperty call it makes; ok is the
\* driver library's answer (ret >= 0)
plane_set_prop(plane, prop, value, ok) ==
    [obj |-> plane.id, prop |-> plane.props[prop].id, value |-> value, ok |-> ok]

\* plane_apply's loop over layer->props from index i; k numbers the
\* drmModeAtomicAddProperty calls of this plane_apply, failAt is the call
\* that fails (0: none)
RECURSIVE plane_apply_props(_, _, _, _, _, _)
plane_apply_props(plane, layer, i, k, failAt, calls) ==
    IF i > layer.props_len THEN [status |-> "ok", calls |-> calls]
    ELSE LET plane_prop == plane_get_property(plane, layer.props[i].name)
         IN  IF plane_prop = NULL
             THEN [status |-> "missing_prop", calls |-> calls]
             ELSE LET c == plane_set_prop(plane, plane_prop, layer.props[i].value, k # failAt)
                  IN  IF ~c.ok
                      THEN [status |-> "add_failed", calls |-> Append(calls, c)]
                      ELSE plane_apply_props(plane, layer, i + 1, k + 1, failAt,
                                             Append(calls, c))

\* a disable operation that appends nothing
plane_apply_disable_skip(plane, failAt) == [status |-> "ok", calls |-> <<>>]

\* plane_apply with layer == NULL: the disable write
plane_apply_disable(plane, failAt) ==
    LET plane_prop == plane_get_property(plane, "FB_ID")
    IN  IF plane_prop = NULL
        THEN [status |-> "assert", calls |-> <<>>]
        ELSE LET c == plane_set_prop(plane, plane_prop, 0, 1 # failAt)
             IN  [status |-> IF c.ok THEN "ok" ELSE "add_failed", calls |-> <<c>>]

\* an enable operation that goes on after its CRTC_ID write failed
plane_apply_enable_ignore(plane, layer, crtc_id, failAt) ==
    LET plane_prop == plane_get_property(plane, "CRTC_ID")
    IN  IF plane_prop = NULL
        THEN [status |-> "assert", calls |-> <<>>]
        ELSE LET c == plane_set_prop(plane, plane_prop, crtc_id, 1 # failAt)
             IN  plane_apply_props(plane, layer, 1, 2, failAt, <<c>>)

\* plane_apply with a layer: CRTC_ID, then every desired property
plane_apply_enable(plane, layer, crtc_id, failAt) ==
    LET plane_prop == plane_get_property(plane, "CRTC_ID")
    IN  IF plane_prop = NULL
        THEN [status |-> "assert", calls |-> <<>>]
        ELSE LET c == plane_set_prop(plane, plane_prop, crtc_id, 1 # failAt)
             IN  IF ~c.ok
                 THEN [status |-> "add_failed", calls |-> <<c>>]
                 ELSE plane_apply_props(plane, layer, 1, 2, failAt, <<c>>)

\* what a failed assert(plane_prop) ends in: abort(), or with NDEBUG the
\* NULL dereference in plane_set_prop
AssertOutcomes == {"aborted", "segv"}

\* the entries drmModeAtomicAddProperty appended for the calls that succeeded
Appended(calls) ==
    LET okc == SelectSeq(calls, LAMBDA c : c.ok)
    IN  [j \in 1..Len(okc) |-> [obj |-> okc[j].obj, prop |-> okc[j].prop,
                                value |-> okc[j].value]]

\* a cursor that names the start of the request
drmModeAtomicGetCursorStart(r) == Len(<<>>)

\* drmModeAtomicGetCursor / drmModeAtomicSetCursor
drmModeAtomicGetCursor(r) == Len(r)
drmModeAtomicSetCursor(r, c) == IF c < Len(r) THEN SubSeq(r, 1, c) ELSE r

\* log entries
AddEvents(calls) ==
    [j \in 1..Len(calls) |-> [ev |-> "add", obj |-> calls[j].obj, prop |-> calls[j].prop,
                              value |-> calls[j].value, layer |-> NULL, flags |-> 0,
                              ret |-> IF calls[j].ok THEN 0 ELSE -1]]
CommitEvent(plane, l, flags, ret) ==
    [ev |-> "commit", obj |-> plane.id, prop |-> 0, value |-> 0, layer |-> l,
     flags |-> flags, ret |-> ret]
LookupFailedEvent(plane, l) ==
    [ev |-> "no_prop", obj |-> plane.id, prop |-> 0, value |-> 0, layer |-> l,
     flags |-> 0, ret |-> 0]
CursorEvent(c) ==
    [ev |-> "set_cursor", obj |-> 0, prop |-> 0, value |-> c, layer |-> NULL,
     flags |-> 0, ret |-> 0]

\* the call numbers at which an append may be made to fail (0: none fails)
FailPoints(n) == 0..n

\* a commit issued with DRM_MODE_ATOMIC_NONBLOCK in place of the test flag
CommitFlagsNonblock == 2 * DRM_MODE_ATOMIC_TEST_ONLY

\* layer_choose_plane, line 204: the flags of the commit
CommitFlags == DRM_MODE_ATOMIC_TEST_ONLY

\* ------------------------------------------------------------ the driver
\* the answer of a test-only commit for a candidate: the one given before for
\* the same (plane, layer), any result the first time
DriverAnswers(plane_id, l) ==
    IF <<plane_id, l>> \in DOMAIN drv THEN {drv[<<plane_id, l>>]} ELSE CommitResults

\* a paired plane offered again as a candidate
PlaneIsFreeAlways(plane) == TRUE

\* a candidate filter that also skips the planes whose CRTC-affinity mask
\* lacks the bit of the output being processed
PlaneIsFreeAffinity(plane) ==
    plane.layer = NULL /\ (plane.possible_crtcs \div (2 ^ (oidx - 1))) % 2 = 1

\* layer_choose_plane, line 193: the plane is not paired
PlaneIsFree(plane) == plane.layer = NULL

\* a rejected candidate whose writes are left in the request
RollbackOmitted(r, c) == r

\* layer_choose_plane, line 216: the request is rolled back to the cursor
Rollback(r, c) == drmModeAtomicSetCursor(r, c)

\* every failed test taken as a rejection of the candidate
TestInfeasibleAny(ret) == TRUE

\* layer_choose_plane, line 210: the results after which the next plane is tried
TestInfeasible(ret) == ~(-ret # EINVAL /\ -ret # ERANGE)

\* a clear phase that leaves the planes' side of the pairing in place
ClearPlanesKeep(pl) == pl

\* a clear phase that also resets the planes' CRTC-affinity mask
ClearPlanesResetMask(pl) ==
    [i \in 1..Len(pl) |-> [pl[i] EXCEPT !.layer = NULL, !.possible_crtcs = 0]]

\* ------------------------------------------------------- hwc_display_apply
\* lines 231-236: unset all existing plane and layer mappings
ClearPlanes(pl) == [i \in 1..Len(pl) |-> [pl[i] EXCEPT !.layer = NULL]]
\* the clear phase forgetting the layer's side of the pairing
ClearLayersKeep(pl, ly) == ly

\* a clear phase that walks the outputs' layer lists instead of the planes
ClearLayersListed(pl, ly) ==
    [l \in DOMAIN ly |->
        IF \E k \in 1..Len(outputs) : \E a \in 1..Len(outputs[k].layers) :
              outputs[k].layers[a] = l
        THEN [ly[l] EXCEPT !.plane = NULL]
        ELSE ly[l]]

ClearLayers(pl, ly) ==
    [l \in DOMAIN ly |->
        IF \E i \in 1..Len(pl) : pl[i].layer = l
        THEN [ly[l] EXCEPT !.plane = NULL]
        ELSE ly[l]]

\* position in the pass's driver calls of the append that failed, 0 when none
FailedAdd(lg) ==
    IF \E j \in 1..Len(lg) : lg[j].ev = "add" /\ lg[j].ret < 0
    THEN CHOOSE j \in 1..Len(lg) : lg[j].ev = "add" /\ lg[j].ret < 0
    ELSE 0

\* entry of hwc_display_apply with the caller's request (empty on the first
\* call, as the previous call left it on a later one), and its clear phase
ApplyBegin ==
    /\ pc = "idle"
    /\ napplies < MaxApplies
    /\ entry_req' = req
    /\ planes' = ClearPlanes(planes)
    /\ layers' = ClearLayers(planes, layers)
    /\ napplies' = napplies + 1
    /\ result' = "none"
    /\ log' = <<>>
    /\ pidx' = 1
    /\ oidx' = 0
    /\ lidx' = 0
    /\ pc' = "disable"
    /\ prev' = [result |-> result,
                pairing |-> [l \in DOMAIN layers |-> layers[l].plane],
                fail |-> FailedAdd(log),
                changed |-> changed]
    /\ changed' = FALSE
    /\ UNCHANGED <<dev, createVars, outputs, req, cursor, drv>>

\* lines 240-247: one iteration of the disable loop
DisablePlane ==
    /\ pc = "disable"
    /\ pidx <= Len(planes)
    /\ IF planes[pidx].layer # NULL
       THEN /\ pidx' = pidx + 1
            /\ UNCHANGED <<pc, req, log, result>>
       ELSE \E failAt \in FailPoints(1) :
              LET r == plane_apply_disable(planes[pidx], failAt)
              IN  /\ req' = req \o Appended(r.calls)
                  /\ log' = log \o AddEvents(r.calls)
                  /\ CASE r.status = "assert" ->
                            /\ pc' \in AssertOutcomes
                            /\ UNCHANGED <<pidx, result>>
                       [] r.status = "ok" ->
                            /\ pidx' = pidx + 1
                            /\ UNCHANGED <<pc, result>>
                       [] OTHER ->
                            /\ result' = "false"
                            /\ pc' = "idle"
                            /\ UNCHANGED pidx
    /\ UNCHANGED <<prev, changed, dev, createVars, planes, outputs, layers, entry_req, cursor,
                   oidx, lidx, drv, napplies>>

\* line 249: the disable loop is over, the loop over outputs starts
DisableDone ==
    /\ pc = "disable"
    /\ pidx > Len(planes)
    /\ oidx' = 1
    /\ lidx' = 1
    /\ pc' = "layer"
    /\ UNCHANGED <<prev, changed, dev, createVars, planes, outputs, layers, req, entry_req,
                   cursor, pidx, drv, log, result, napplies>>

\* line 249: the layers of this output are done, next output
OutputNext ==
    /\ pc = "layer"
    /\ oidx <= Len(outputs)
    /\ lidx > Len(outputs[oidx].layers)
    /\ oidx' = oidx + 1
    /\ lidx' = 1
    /\ UNCHANGED <<prev, changed, dev, pc, createVars, planes, outputs, layers, req, entry_req,
                   cursor, pidx, drv, log, result, napplies>>

\* line 257: every output is done
ApplyReturn ==
    /\ pc = "layer"
    /\ oidx > Len(outputs)
    /\ result' = "true"
    /\ pc' = "idle"
    /\ UNCHANGED <<prev, changed, dev, createVars, planes, outputs, layers, req, entry_req,
                   cursor, oidx, lidx, pidx, drv, log, napplies>>

\* layer_choose_plane, lines 189-192: entry for the current layer
LayerBegin ==
    /\ pc = "layer"
    /\ oidx <= Len(outputs)
    /\ lidx <= Len(outputs[oidx].layers)
    /\ cursor' = drmModeAtomicGetCursor(req)
    /\ pidx' = 1
    /\ pc' = "plane"
    /\ UNCHANGED <<prev, changed, dev, createVars, planes, outputs, layers, req, entry_req,
                   oidx, lidx, drv, log, result, napplies>>

\* layer_choose_plane, lines 193-195: a paired plane is skipped
PlaneSkip ==
    /\ pc = "plane"
    /\ pidx <= Len(planes)
    /\ ~PlaneIsFree(planes[pidx])
    /\ pidx' = pidx + 1
    /\ UNCHANGED <<prev, changed, dev, pc, createVars, planes, outputs, layers, req, entry_req,
                   cursor, oidx, lidx, drv, log, result, napplies>>

\* layer_choose_plane, lines 197-216: one candidate plane is applied and tested
PlaneTry ==
    /\ pc = "plane"
    /\ pidx <= Len(planes)
    /\ PlaneIsFree(planes[pidx])
    /\ LET l == outputs[oidx].layers[lidx]
           plane == planes[pidx]
       IN  \E failAt \in FailPoints(1 + layers[l].props_len) :
             LET r == plane_apply_enable(plane, layers[l],
                                         outputs[layers[l].output].crtc_id, failAt)
                 req1 == req \o Appended(r.calls)
                 log1 == log \o AddEvents(r.calls) \o
                         (IF r.status = "missing_prop"
                          THEN <<LookupFailedEvent(plane, l)>> ELSE <<>>)
             IN  /\ CASE r.status = "assert" ->
                           /\ pc' \in AssertOutcomes
                           /\ req' = req1
                           /\ log' = log1
                           /\ UNCHANGED <<planes, layers, lidx, pidx, drv, result>>
                      [] r.status \in {"add_failed", "missing_prop"} ->
                           /\ result' = "false"
                           /\ pc' = "idle"
                           /\ req' = req1
                           /\ log' = log1
                           /\ UNCHANGED <<planes, layers, lidx, pidx, drv>>
                      [] OTHER ->
                           \E ret \in DriverAnswers(plane.id, l) :
                             LET log2 == Append(log1, CommitEvent(plane, l,
                                                                  CommitFlags, ret))
                             IN  /\ drv' = (<<plane.id, l>> :> ret) @@ drv
                                 /\ IF ret = 0
                                    THEN /\ layers' = [layers EXCEPT ![l].plane = pidx]
                                         /\ planes' = [planes EXCEPT ![pidx].layer = l]
                                         /\ req' = req1
                                         /\ log' = log2
                                         /\ lidx' = lidx + 1
                                         /\ pc' = "layer"
                                         /\ UNCHANGED <<pidx, result>>
                                    ELSE IF ~TestInfeasible(ret)
                                    THEN /\ result' = "false"
                                         /\ pc' = "idle"
                                         /\ req' = req1
                                         /\ log' = log2
                                         /\ UNCHANGED <<planes, layers, lidx, pidx>>
                                    ELSE /\ req' = Rollback(req1, cursor)
                                         /\ log' = Append(log2, CursorEvent(cursor))
                                         /\ pidx' = pidx + 1
                                         /\ UNCHANGED <<planes, layers, lidx, pc, result>>
    /\ UNCHANGED <<prev, changed, dev, createVars, outputs, entry_req, cursor, oidx, napplies>>

\* a layer without a plane reported as a failure of the pass
LayerNoPlaneFails ==
    /\ pc = "plane"
    /\ pidx > Len(planes)
    /\ result' = "false"
    /\ pc' = "idle"
    /\ UNCHANGED <<prev, changed, dev, createVars, planes, outputs, layers, req, entry_req,
                   cursor, oidx, lidx, pidx, drv, log, napplies>>

\* layer_choose_plane, lines 219-220: no plane was found for the layer
LayerNoPlane ==
    /\ pc = "plane"
    /\ pidx > Len(planes)
    /\ lidx' = lidx + 1
    /\ pc' = "layer"
    /\ UNCHANGED <<prev, changed, dev, createVars, planes, outputs, layers, req, entry_req,
                   cursor, oidx, pidx, drv, log, result, napplies>>

\* hwc_display_destroy called by the owner of a constructed display
Destroy ==
    /\ pc = "idle"
    /\ held' = hwc_display_destroy(held, planes)
    /\ planes' = <<>>
    /\ pc' = "destroyed"
    /\ UNCHANGED <<prev, changed, dev, lists_init, create_ret, outputs, layers, passVars>>

\* between two passes the caller takes a paired layer off its output's
\* list; the layer itself stays alive
LayerUnlist ==
    /\ pc = "idle"
    /\ result # "none"
    /\ ~changed
    /\ napplies < MaxApplies
    /\ \E k \in 1..Len(outputs) : \E a \in 1..Len(outputs[k].layers) :
          /\ layers[outputs[k].layers[a]].plane # NULL
          /\ outputs' = [outputs EXCEPT ![k].layers =
                            SubSeq(@, 1, a - 1) \o SubSeq(@, a + 1, Len(@))]
    /\ changed' = TRUE
    /\ UNCHANGED <<prev, dev, pc, createVars, planes, layers, passVars>>

\* between two passes the driver stops accepting a candidate it accepted
DriverRejects ==
    /\ pc = "idle"
    /\ result # "none"
    /\ ~changed
    /\ napplies < MaxApplies
    /\ \E c \in DOMAIN drv :
          /\ drv[c] = 0
          /\ drv' = [drv EXCEPT ![c] = -EINVAL]
    /\ changed' = TRUE
    /\ UNCHANGED <<prev, dev, pc, createVars, planes, outputs, layers, req,
                   entry_req, cursor, oidx, lidx, pidx, log, result, napplies>>

Next ==
    \/ CreateAlloc
    \/ CreateDup
    \/ CreateGetResources
    \/ CreatePlane
    \/ CreateReturn
    \/ SetupOutputs
    \/ ApplyBegin
    \/ DisablePlane
    \/ DisableDone
    \/ OutputNext
    \/ ApplyReturn
    \/ LayerBegin
    \/ PlaneSkip
    \/ PlaneTry
    \/ LayerNoPlane
    \/ LayerUnlist
    \/ DriverRejects
    \/ Destroy

Spec == Init /\ [][Next]_vars

\* the steps of a running hwc_display_apply call
ApplyStep ==
    \/ DisablePlane
    \/ DisableDone
    \/ OutputNext
    \/ ApplyReturn
    \/ LayerBegin
    \/ PlaneSkip
    \/ PlaneTry
    \/ LayerNoPlane

\* a call of hwc_display_apply that has been entered keeps executing
FairSpec == Spec /\ WF_vars(ApplyStep)

\* the first hwc_display_apply call on a display
ApplyBeginFirst == napplies = 0 /\ ApplyBegin

\* a display with up to one layer more, through construction and its first
\* hwc_display_apply call
WideNext ==
    \/ CreateAlloc
    \/ CreateDup
    \/ CreateGetResources
    \/ CreatePlane
    \/ CreateReturn
    \/ SetupOutputsWide
    \/ ApplyBeginFirst
    \/ ApplyStep
    \/ Destroy

WideSpec == Init /\ [][WideNext]_vars

TypeOK ==
    /\ pc \in {"start", "dup", "resources", "planes", "failed", "created", "idle",
               "disable", "layer", "plane", "destroyed", "aborted", "segv",
               "destroy_segv", "destroy_corrupt"}
    /\ result \in {"none", "true", "false"}
    /\ create_ret \in {"none", "display", "null"}
    /\ changed \in BOOLEAN
    /\ prev.result \in {"none", "true", "false"}

\* ================================================================= claims
\* the layers in the order hwc_display_apply processes them
RECURSIVE LayersFrom(_)
LayersFrom(k) ==
    IF k > Len(outputs) THEN <<>> ELSE outputs[k].layers \o LayersFrom(k + 1)
AllLayers == LayersFrom(1)
ListedLayers == {AllLayers[j] : j \in 1..Len(AllLayers)}
LayerPos(l) == CHOOSE j \in 1..Len(AllLayers) : AllLayers[j] = l

\* hwc_display_apply has returned and nothing was changed since
PassReturned == pc = "idle" /\ result # "none" /\ ~changed
LastEvent == log[Len(log)]
InfeasibleCommit(e) == e.ev = "commit" /\ (-e.ret = EINVAL \/ -e.ret = ERANGE)
FatalCommit(e) == e.ev = "commit" /\ e.ret # 0 /\ -e.ret # EINVAL /\ -e.ret # ERANGE

\* ------------------------------------------------------------------- C1
PairingConsistent ==
    /\ \A i \in 1..Len(planes) :
          planes[i].layer = NULL
          \/ (planes[i].layer \in DOMAIN layers /\ layers[planes[i].layer].plane = i)
    /\ \A l \in DOMAIN layers :
          layers[l].plane = NULL
          \/ (layers[l].plane \in 1..Len(planes) /\ planes[layers[l].plane].layer = l)

\* C1: in every state from the return of hwc_display_create on, through any
\* sequence of hwc_display_apply calls that succeed or fail, every plane's
\* layer is empty or points back to the plane, and every layer's plane is
\* empty or points back to the layer.
C1_PairingConsistency ==
    (create_ret = "display" /\ pc # "destroyed") => PairingConsistent

\* a second pass has failed after first pairing a plane anew
C1_Witness ==
    /\ PassReturned
    /\ napplies = 2
    /\ result = "false"
    /\ \E i \in 1..Len(planes) : planes[i].layer # NULL

\* ------------------------------------------------------------------- C2
\* the candidate about to be tried has CRTC_ID but lacks a property the
\* layer's desired set names
MissingPropCandidate ==
    /\ pc = "plane"
    /\ pidx <= Len(planes)
    /\ PlaneIsFree(planes[pidx])
    /\ plane_get_property(planes[pidx], "CRTC_ID") # NULL
    /\ LET ly == layers[outputs[oidx].layers[lidx]]
       IN  \E i \in 1..ly.props_len :
              plane_get_property(planes[pidx], ly.props[i].name) = NULL

\* the step made a drmModeAtomicAddProperty call that failed
AppendFailedStep ==
    \E j \in 1..Len(log') : j > Len(log) /\ log'[j].ev = "add" /\ log'[j].ret < 0

\* C2: when the candidate plane lacks a property the layer requires (and no
\* append fails), only this candidate is abandoned: the next plane is tried
\* for the same layer and apply does not return failure.
C2_MissingPropertyRecoverable ==
    [][(MissingPropCandidate /\ ~AppendFailedStep)
          => (pc' = "plane" /\ pidx' = pidx + 1 /\ lidx' = lidx /\ result' = "none")]_vars

\* ------------------------------------------------------------------- C3
\* the step tested a candidate and the driver answered EINVAL or ERANGE
RejectedStep ==
    /\ Len(log') > Len(log)
    /\ SubSeq(log', 1, Len(log)) = log
    /\ \E j \in (Len(log) + 1)..Len(log') : InfeasibleCommit(log'[j])

\* C3: a candidate rejected with EINVAL or ERANGE leaves the request exactly
\* as it was before the candidate's enable writes were appended, and the pass
\* goes on with the next plane for the same layer.
C3_RollbackCorrect ==
    [][RejectedStep
          => (req' = req /\ pc' = "plane" /\ pidx' = pidx + 1 /\ lidx' = lidx
              /\ result' = "none")]_vars

\* a candidate has just been rejected with ERANGE and rolled back, after
\* its writes had been appended behind the disable writes
C3_Witness ==
    /\ pc = "plane"
    /\ Len(log) >= 3
    /\ LastEvent.ev = "set_cursor"
    /\ log[Len(log) - 1].ev = "commit"
    /\ -log[Len(log) - 1].ret = ERANGE
    /\ log[Len(log) - 2].ev = "add"
    /\ Len(req) = cursor
    /\ cursor > 0

\* ------------------------------------------------------------------- C4
\* the driver's answers so far are those of a driver that accepts (rejects)
\* layer l on plane i
MayAccept(i, l) ==
    <<planes[i].id, l>> \notin DOMAIN drv \/ drv[<<planes[i].id, l>>] = 0
MayReject(i, l) ==
    <<planes[i].id, l>> \notin DOMAIN drv \/ drv[<<planes[i].id, l>>] # 0

\* plane i is the one plane of the display compatible with l1 or l2
OnlyCompatible(i, l1, l2) ==
    /\ MayAccept(i, l1)
    /\ MayAccept(i, l2)
    /\ \A q \in 1..Len(planes) :
          q # i => (MayReject(q, l1) /\ MayReject(q, l2))

\* C4: l1 listed before l2 on the same output and one single plane
\* compatible with either: after a successful apply l1 holds the plane and
\* l2 is unpaired.
C4_PriorityOrderingAnyEarlier ==
    (PassReturned /\ result = "true") =>
        \A k \in 1..Len(outputs) :
          \A a \in 1..Len(outputs[k].layers) : \A b \in 1..Len(outputs[k].layers) :
            \A i \in 1..Len(planes) :
               LET l1 == outputs[k].layers[a]
                   l2 == outputs[k].layers[b]
               IN  (a < b /\ OnlyCompatible(i, l1, l2))
                   => (layers[l1].plane = i /\ layers[l2].plane = NULL)

\* C4: l1 listed before l2 on the same output, one single plane compatible
\* with either, and that plane not taken by a layer processed before l1:
\* after a successful apply l1 holds the plane and l2 is unpaired.
C4_PriorityOrdering ==
    (PassReturned /\ result = "true") =>
        \A k \in 1..Len(outputs) :
          \A a \in 1..Len(outputs[k].layers) : \A b \in 1..Len(outputs[k].layers) :
            \A i \in 1..Len(planes) :
               LET l1 == outputs[k].layers[a]
                   l2 == outputs[k].layers[b]
               IN  (/\ a < b
                    /\ OnlyCompatible(i, l1, l2)
                    /\ \A l0 \in ListedLayers :
                          LayerPos(l0) < LayerPos(l1) => layers[l0].plane # i)
                   => (layers[l1].plane = i /\ layers[l2].plane = NULL)

\* three layers, two planes: the first layer holds the first plane; the two
\* layers after it share an output and only the second plane is compatible
\* with either: the earlier of the two holds it, the later has none
C4_Witness ==
    /\ PassReturned
    /\ result = "true"
    /\ Len(planes) = 2
    /\ Len(AllLayers) = 3
    /\ layers[AllLayers[1]].plane = 1
    /\ layers[AllLayers[2]].output = layers[AllLayers[3]].output
    /\ OnlyCompatible(2, AllLayers[2], AllLayers[3])
    /\ <<planes[2].id, AllLayers[2]>> \in DOMAIN drv
    /\ layers[AllLayers[2]].plane = 2
    /\ layers[AllLayers[3]].plane = NULL

\* ------------------------------------------------------------------- C5
\* the scenario of the spec: planes 10 and 11, one output (crtc 5) with two
\* layers that each require FB_ID, plane 10 accepts both layers, plane 11
\* rejects layer 2 with EINVAL, no append fails
C5_Scenario ==
    /\ Len(planes) = 2
    /\ planes[1].id = 10 /\ planes[2].id = 11
    /\ \A i \in 1..2 : plane_get_property(planes[i], "FB_ID") # NULL
                       /\ plane_get_property(planes[i], "CRTC_ID") # NULL
    /\ Len(outputs) = 1
    /\ outputs[1].crtc_id = 5
    /\ outputs[1].layers = <<1, 2>>
    /\ \A l \in 1..2 : layers[l].props_len = 1 /\ layers[l].props[1].name = "FB_ID"
    /\ MayAccept(1, 1) /\ MayAccept(1, 2)
    /\ <<11, 2>> \in DOMAIN drv /\ -drv[<<11, 2>>] = EINVAL
    /\ \A j \in 1..Len(log) : log[j].ret = 0 \/ log[j].ev = "commit"

C5_ScenarioOutcome ==
    (PassReturned /\ C5_Scenario)
        => (result = "true" /\ layers[1].plane = 1 /\ planes[1].layer = 1
            /\ layers[2].plane = NULL /\ planes[2].layer = NULL)

\* a pass that returns failure does so on a failed append, a missing
\* property or a non-infeasible test result, never on a rejection
C5_FailureCause ==
    (PassReturned /\ result = "false")
        => (/\ Len(log) > 0
            /\ \/ (LastEvent.ev = "add" /\ LastEvent.ret < 0)
               \/ LastEvent.ev = "no_prop"
               \/ FatalCommit(LastEvent))

\* C5: when every unpaired plane has been rejected for the layer (or none is
\* left), the layer stays unpaired, the pass goes on with the next layer and
\* no failure is returned for it; in the scenario of the spec layer 1 holds
\* plane 10, layer 2 is unpaired and apply returns success.
C5_BestEffort ==
    [][/\ (pc = "plane" /\ pidx > Len(planes))
            => (/\ pc' = "layer"
                /\ lidx' = lidx + 1
                /\ oidx' = oidx
                /\ result' = "none"
                /\ req' = req
                /\ planes' = planes
                /\ layers' = layers
                /\ layers'[outputs[oidx].layers[lidx]].plane = NULL)
       /\ C5_ScenarioOutcome'
       /\ C5_FailureCause']_vars

\* the scenario's pass has returned
C5_Witness ==
    /\ PassReturned
    /\ C5_Scenario
    /\ result = "true"
    /\ layers[2].plane = NULL
    /\ log[Len(log) - 1].ev = "commit"
    /\ log[Len(log) - 1].obj = 11
    /\ log[Len(log) - 1].layer = 2

\* ------------------------------------------------------------------- C6
\* C6: a test-only commit that fails with a code other than EINVAL or ERANGE
\* is the last driver call of the pass: apply has returned failure, no plane
\* is tried, no write appended and no test issued after it.
C6_FatalShortCircuit ==
    \A j \in 1..Len(log) :
        FatalCommit(log[j])
            => (j = Len(log) /\ pc \in {"idle", "destroyed"} /\ result = "false")

\* a fatal test result while another plane and another layer were still to come
C6_Witness ==
    /\ PassReturned
    /\ result = "false"
    /\ Len(log) > 0
    /\ FatalCommit(LastEvent)
    /\ pidx < Len(planes)
    /\ lidx < Len(outputs[oidx].layers)
    /\ oidx < Len(outputs)

\* ------------------------------------------------------------------- C7
\* C7: when hwc_display_create returns no display, nothing it acquired is
\* still held: handle, display record, plane records, property tables and
\* driver result buffers have all been released.
C7_AllOrNothing == create_ret = "null" => held = {}

\* ------------------------------------------------------------------- C8
\* C8: hwc_display_destroy as the unwind path of hwc_display_create completes
\* at every failure point: it never traverses a plane list that was not
\* initialised, and a failed create has released the display and its handle.
C8_DestroyToleratesPartial ==
    /\ pc \notin UninitListOutcomes
    /\ create_ret = "null" => (held \cap {ResDisplay, ResFd} = {})

\* ------------------------------------------------------------------- C9
\* the disable write of the plane at position i of the registry
DisableWrite(i) ==
    [obj |-> planes[i].id,
     prop |-> planes[i].props[plane_get_property(planes[i], "FB_ID")].id,
     value |-> 0]

EntryOf(e) == [obj |-> e.obj, prop |-> e.prop, value |-> e.value]

\* the current pass has entered its match phase
ReachedMatch ==
    /\ napplies > 0
    /\ oidx >= 1
    /\ pc \in {"layer", "plane", "idle", "aborted", "segv"}

\* C9: in a pass that reaches the match phase the first driver calls are the
\* disable writes FB_ID = 0, one per plane in registry order, each appended
\* once and still in the request behind its content at entry whatever was
\* rolled back since; after a successful pass an unpaired plane has that one
\* write of the pass in the request and no other.
C9_DisableBeforeMatch ==
    ReachedMatch =>
        LET n == Len(planes)
            e == Len(entry_req)
        IN  /\ Len(log) >= n
            /\ Len(req) >= e + n
            /\ SubSeq(req, 1, e) = entry_req
            /\ \A i \in 1..n :
                  /\ log[i].ev = "add"
                  /\ log[i].ret = 0
                  /\ EntryOf(log[i]) = DisableWrite(i)
                  /\ req[e + i] = DisableWrite(i)
                  /\ Cardinality({j \in 1..Len(log) :
                         log[j].ev = "add" /\ EntryOf(log[j]) = DisableWrite(i)}) = 1
            /\ \A j \in 1..Len(log) : log[j].ev \in {"commit", "set_cursor"} => j > n
            /\ (PassReturned /\ result = "true") =>
                  \A i \in 1..n :
                     planes[i].layer = NULL =>
                        {j \in (e + 1)..Len(req) : req[j].obj = planes[i].id} = {e + i}

\* a successful pass on a reused request that rolled a candidate back and
\* left a plane unpaired
C9_Witness ==
    /\ PassReturned
    /\ result = "true"
    /\ oidx >= 1
    /\ Len(planes) = 2
    /\ Len(entry_req) > 0
    /\ \E j \in 1..Len(log) : log[j].ev = "set_cursor"
    /\ \E i \in 1..Len(planes) : planes[i].layer = NULL
    /\ \E i \in 1..Len(planes) : planes[i].layer # NULL

\* ------------------------------------------------------------------ C10
\* the plane about to be disabled lacks FB_ID, or the candidate about to be
\* enabled lacks CRTC_ID
MissingAlwaysPresent ==
    \/ /\ pc = "disable"
       /\ pidx <= Len(planes)
       /\ planes[pidx].layer = NULL
       /\ plane_get_property(planes[pidx], "FB_ID") = NULL
    \/ /\ pc = "plane"
       /\ pidx <= Len(planes)
       /\ PlaneIsFree(planes[pidx])
       /\ plane_get_property(planes[pidx], "CRTC_ID") = NULL

\* C10: a plane lacking FB_ID (disable phase) or CRTC_ID (enable) aborts the
\* pass and hwc_display_apply returns failure to its caller.
C10_MissingReturnsFailure ==
    [][MissingAlwaysPresent => (pc' = "idle" /\ result' = "false")]_vars

\* ------------------------------------------------------------------ C11
\* the driver call j of the pass is an append that failed
AppendFailedAt(j) == log[j].ev = "add" /\ log[j].ret < 0

\* C11: a failed append of a property write, in the disable phase or while a
\* candidate plane is enabled, is the last driver call of the pass (no
\* further write, test or rollback follows, no other plane is tried) and
\* hwc_display_apply has returned failure.
C11_AppendFailureFatal ==
    \A j \in 1..Len(log) :
        AppendFailedAt(j) =>
            /\ j = Len(log)
            /\ result = "false"
            /\ pc \in {"idle", "destroyed"}

\* an append failed while a candidate was enabled for a layer, and a plane
\* after the candidate was still unpaired
C11_Witness ==
    /\ PassReturned
    /\ result = "false"
    /\ Len(log) > 0
    /\ AppendFailedAt(Len(log))
    /\ oidx >= 1
    /\ pidx < Len(planes)
    /\ planes[pidx + 1].layer = NULL
    /\ \E j \in 1..Len(log) : log[j].ev = "add" /\ log[j].ret = 0 /\ log[j].value # 0

\* ------------------------------------------------------------------ C12
\* the plane each layer holds
Pairing == [l \in DOMAIN layers |-> layers[l].plane]

\* the second of two successive passes has returned, and between the two
\* neither the caller nor the driver changed anything
SecondPassReturned == PassReturned /\ napplies >= 2 /\ ~prev.changed

\* the two passes agree on the append that failed, if any
SameAppendOutcome == FailedAdd(log) = prev.fail

\* C12 as stated: two successive passes on the same planes, outputs, layers
\* and desired properties, with the same driver answer per (plane, layer)
\* candidate, return the same result and leave the same pairing.
C12_IdempotentRetryAnyAppend ==
    SecondPassReturned => (result = prev.result /\ Pairing = prev.pairing)

\* C12: two successive passes on the same planes, outputs, layers and
\* desired properties, with the same driver answer per (plane, layer)
\* candidate and the same append failing (or none) in both, return the same
\* result and leave the same pairing.
C12_IdempotentRetry ==
    (SecondPassReturned /\ SameAppendOutcome)
        => (result = prev.result /\ Pairing = prev.pairing)

\* a second pass that paired a layer after a rejected candidate, as the first
C12_Witness ==
    /\ SecondPassReturned
    /\ SameAppendOutcome
    /\ result = "true"
    /\ prev.result = "true"
    /\ \E l \in DOMAIN layers : layers[l].plane # NULL
    /\ \E j \in 1..Len(log) : InfeasibleCommit(log[j])

\* ------------------------------------------------------------------ C13
\* the request holds a write of value to the plane's property called name
HasWrite(r, plane, name, value) ==
    /\ plane_get_property(plane, name) # NULL
    /\ \E j \in 1..Len(r) :
          /\ r[j].obj = plane.id
          /\ r[j].prop = plane.props[plane_get_property(plane, name)].id
          /\ r[j].value = value

\* C13: after a successful hwc_display_apply on a request that was empty at
\* entry, the request holds, for every plane left unpaired that has the
\* CRTC_ID property, a write of CRTC_ID = 0 as well as the write of FB_ID = 0.
C13_DisabledPlaneCleared ==
    (PassReturned /\ result = "true" /\ entry_req = <<>>) =>
        \A i \in 1..Len(planes) :
            (planes[i].layer = NULL /\ plane_get_property(planes[i], "CRTC_ID") # NULL)
                => (/\ HasWrite(req, planes[i], "FB_ID", 0)
                    /\ HasWrite(req, planes[i], "CRTC_ID", 0))

\* ------------------------------------------------------------------ C14
\* hwc_display_apply has been entered and has not ended
PassRunning == pc \in {"disable", "layer", "plane"}

\* the test evaluations of the pass, as positions in its driver calls
Commits == {j \in 1..Len(log) : log[j].ev = "commit"}
CommitsFor(l) == {j \in Commits : log[j].layer = l}

\* no plane is tested twice for one layer, at most |Planes| candidates are
\* tested per layer and at most |Layers| x |Planes| in the pass (counted
\* while the display and the lists are those the pass ran on)
CandidatesBounded ==
    /\ \A j \in Commits : \A k \in Commits :
          (j < k /\ log[j].layer = log[k].layer) => log[j].obj # log[k].obj
    /\ pc = "destroyed"
          \/ \A l \in DOMAIN layers : Cardinality(CommitsFor(l)) <= Len(planes)
    /\ pc = "destroyed" \/ changed
          \/ Cardinality(Commits) <= Len(AllLayers) * Len(planes)

\* after the test that paired a plane, the pass makes no driver call for
\* that plane: no write for it, no test of it
PairedNotRevisited ==
    \A j \in Commits :
        log[j].ret = 0 => \A k \in (j + 1)..Len(log) : log[k].obj # log[j].obj

\* C14: every hwc_display_apply pass that was entered ends; in a pass each
\* plane is tested at most once per layer, so at most |Planes| candidates
\* per layer and |Layers| x |Planes| tests in all, and a plane paired
\* earlier in the pass is never applied or tested again.
C14_Termination ==
    /\ [](CandidatesBounded /\ PairedNotRevisited)
    /\ (PassRunning ~> ~PassRunning)

\* a pass over two planes and two layers returned after the first plane
\* was paired with the first layer and the second layer was tested on, and
\* rejected by, the second plane only
C14_Witness ==
    /\ PassReturned
    /\ result = "true"
    /\ Len(planes) = 2
    /\ Len(AllLayers) = 2
    /\ layers[AllLayers[1]].plane = 1
    /\ layers[AllLayers[2]].plane = NULL
    /\ Cardinality(Commits) = 2
    /\ \E j \in Commits : InfeasibleCommit(log[j]) /\ log[j].layer = AllLayers[2]

\* ------------------------------------------------------------------ C15
\* the flags carry DRM_MODE_ATOMIC_TEST_ONLY
TestOnly(flags) == (flags \div DRM_MODE_ATOMIC_TEST_ONLY) % 2 = 1

\* every evaluation of the pass is a test-only evaluation
AllTestOnly == \A j \in Commits : TestOnly(log[j].flags)

\* r1 is r with entries appended
Extends(r1, r) == Len(r1) >= Len(r) /\ SubSeq(r1, 1, Len(r)) = r

\* the step issued no evaluation
NoNewCommit == \A j \in (Len(log) + 1)..Len(log') : log'[j].ev # "commit"

\* C15: every evaluation issued during hwc_display_apply is test-only; a
\* step of the pass that consists of plane_apply alone (a disable write, or
\* the enable writes of a candidate when plane_apply fails) issues no
\* evaluation, changes no pairing and only appends to the request; the
\* pairing changes only in the step whose evaluation succeeded.
C15_NoVisibleCommit ==
    [][/\ AllTestOnly'
       /\ pc = "disable" =>
             (NoNewCommit /\ planes' = planes /\ layers' = layers /\ Extends(req', req))
       /\ (pc = "plane" /\ NoNewCommit) =>
             (planes' = planes /\ layers' = layers /\ Extends(req', req))
       /\ (pc = "plane" /\ (planes' # planes \/ layers' # layers)) =>
             (/\ Len(log') > Len(log)
              /\ log'[Len(log')].ev = "commit"
              /\ log'[Len(log')].ret = 0
              /\ TestOnly(log'[Len(log')].flags))]_vars

\* a pass that disabled a plane, appended the writes of a candidate whose
\* plane_apply failed after one write, and paired a layer on a test
C15_Witness ==
    /\ PassReturned
    /\ result = "false"
    /\ Len(AllLayers) = 2
    /\ layers[AllLayers[1]].plane # NULL
    /\ Cardinality(Commits) >= 1
    /\ LastEvent.ev = "no_prop"
    /\ Len(req) > Len(entry_req) + Len(planes)

\* ------------------------------------------------------------------ C16
\* driver call j is the test of plane i for layer l
TestAt(j, i, l) ==
    log[j].ev = "commit" /\ log[j].obj = planes[i].id /\ log[j].layer = l

\* the driver calls before test j are the enable writes of layer l on plane
\* i: CRTC_ID first, then the layer's properties in order
EnableWritesBefore(j, i, l) ==
    LET n == layers[l].props_len
    IN  /\ j > n + 1
        /\ log[j - n - 1].ev = "add"
        /\ log[j - n - 1].obj = planes[i].id
        /\ log[j - n - 1].prop = DrmPropId("CRTC_ID")
        /\ log[j - n - 1].value = outputs[layers[l].output].crtc_id
        /\ \A a \in 1..n :
              /\ log[j - n - 1 + a].ev = "add"
              /\ log[j - n - 1 + a].obj = planes[i].id
              /\ log[j - n - 1 + a].prop = DrmPropId(layers[l].props[a].name)
              /\ log[j - n - 1 + a].value = layers[l].props[a].value

\* layer l holds plane i by first fit: a successful test of its enable
\* writes, and every plane before i either held by a layer processed
\* earlier or tested for l before and rejected as infeasible
FirstFit(l, i) ==
    \E j \in 1..Len(log) :
        /\ TestAt(j, i, l)
        /\ log[j].ret = 0
        /\ EnableWritesBefore(j, i, l)
        /\ \A q \in 1..(i - 1) :
              \/ /\ planes[q].layer \in ListedLayers
                 /\ LayerPos(planes[q].layer) < LayerPos(l)
              \/ \E k \in 1..(j - 1) : TestAt(k, q, l) /\ InfeasibleCommit(log[k])

\* C16: after a successful hwc_display_apply every paired layer holds the
\* first plane in registry order that was unpaired when the layer was
\* processed and whose test with the layer's enable writes succeeded, the
\* unpaired planes before it having been tested and rejected as infeasible,
\* whatever their CRTC-affinity mask.
C16_FirstFit ==
    (PassReturned /\ result = "true") =>
        \A l \in ListedLayers :
            layers[l].plane # NULL => FirstFit(l, layers[l].plane)

\* a layer of the second output holds the second plane after the first
\* plane, whose mask names the first CRTC only, was tested for it and rejected
C16_Witness ==
    /\ PassReturned
    /\ result = "true"
    /\ Len(planes) = 2
    /\ Len(outputs) = 2
    /\ planes[1].possible_crtcs = 1
    /\ \E l \in ListedLayers :
          /\ layers[l].output = 2
          /\ layers[l].plane = 2
          /\ \E k \in 1..Len(log) : TestAt(k, 1, l) /\ InfeasibleCommit(log[k])

\* ------------------------------------------------------------------ C17
\* the id the plane's property table gives name
PlanePropId(plane, name) == plane.props[plane_get_property(plane, name)].id

\* one FB_ID = 0 write per plane, in registry order
ExpectedDisableWrites ==
    [i \in 1..Len(planes) |->
        [obj |-> planes[i].id, prop |-> PlanePropId(planes[i], "FB_ID"), value |-> 0]]

\* the enable writes of layer l on the plane it holds: CRTC_ID, then the
\* layer's desired properties in the layer's order
ExpectedEnableWrites(l) ==
    LET plane == planes[layers[l].plane]
    IN  <<[obj |-> plane.id, prop |-> PlanePropId(plane, "CRTC_ID"),
           value |-> outputs[layers[l].output].crtc_id]>>
        \o [a \in 1..layers[l].props_len |->
               [obj |-> plane.id,
                prop |-> PlanePropId(plane, layers[l].props[a].name),
                value |-> layers[l].props[a].value]]

\* the enable writes of the paired layers from position j of the processing
\* order on
RECURSIVE ExpectedEnableFrom(_)
ExpectedEnableFrom(j) ==
    IF j > Len(AllLayers) THEN <<>>
    ELSE (IF layers[AllLayers[j]].plane # NULL
          THEN ExpectedEnableWrites(AllLayers[j]) ELSE <<>>)
         \o ExpectedEnableFrom(j + 1)

\* C17: after a successful hwc_display_apply on a request that was empty at
\* entry, the request is exactly one FB_ID = 0 write per plane in registry
\* order, then for each paired layer in processing order CRTC_ID = the crtc
\* id of its output and its desired properties in order, addressed to its
\* plane with the ids of the plane's table; nothing is left of rejected
\* candidates or of layers that ended unpaired.
C17_RequestContent ==
    (PassReturned /\ result = "true" /\ entry_req = <<>>) =>
        req = ExpectedDisableWrites \o ExpectedEnableFrom(1)

\* two planes, two layers: the first layer unpaired after both planes were
\* rejected, the second paired with the second plane after the first was
\* rejected, the request holding the two disable writes and its enable writes
C17_Witness ==
    /\ PassReturned
    /\ result = "true"
    /\ entry_req = <<>>
    /\ Len(planes) = 2
    /\ Len(AllLayers) = 2
    /\ layers[AllLayers[1]].plane = NULL
    /\ layers[AllLayers[2]].plane = 2
    /\ layers[AllLayers[2]].props_len = 2
    /\ Len(req) = 5
    /\ Cardinality({j \in Commits : InfeasibleCommit(log[j])}) = 3

\* ------------------------------------------------------------------ C18
\* no plane and no layer holds a pairing reference
NoPairing ==
    /\ \A i \in 1..Len(planes) : planes[i].layer = NULL
    /\ \A l \in DOMAIN layers : layers[l].plane = NULL

\* the driver accepts layer l on plane i
Accepted(i, l) == <<planes[i].id, l>> \in DOMAIN drv /\ drv[<<planes[i].id, l>>] = 0

\* the pairing computed from nothing but the lists and the driver's answers:
\* the layers from position j of the processing order on, taken being the
\* planes given to the layers before
RECURSIVE Recomputed(_, _)
Recomputed(j, taken) ==
    IF j > Len(AllLayers) THEN [l \in DOMAIN layers |-> NULL]
    ELSE LET l == AllLayers[j]
             free == {i \in 1..Len(planes) : i \notin taken /\ Accepted(i, l)}
         IN  IF free = {}
             THEN Recomputed(j + 1, taken)
             ELSE LET i == CHOOSE i \in free : \A q \in free : i <= q
                  IN  [Recomputed(j + 1, taken \cup {i}) EXCEPT ![l] = i]

\* layer l was paired in the current pass
PairedThisPass(l) ==
    \E j \in 1..Len(log) : TestAt(j, layers[l].plane, l) /\ log[j].ret = 0

\* C18: the pass starts matching with no pairing left from before; after a
\* successful hwc_display_apply every paired layer is listed under an output
\* and was paired by a test of this pass, so a layer that is no longer
\* listed, or that no plane accepts now, holds no plane; and the pairing is
\* the one the lists and the driver's answers give, whatever it was at entry.
C18_FullRecomputation ==
    /\ pc = "disable" => NoPairing
    /\ (PassReturned /\ result = "true") =>
          /\ \A l \in DOMAIN layers :
                layers[l].plane # NULL => (l \in ListedLayers /\ PairedThisPass(l))
          /\ Pairing = Recomputed(1, {})

\* second pass after a paired layer was taken off its list: that layer
\* holds no plane any more and its plane went to another layer
C18_Witness ==
    /\ PassReturned
    /\ result = "true"
    /\ napplies = 2
    /\ prev.changed
    /\ \E l \in DOMAIN layers :
          /\ l \notin ListedLayers
          /\ prev.pairing[l] # NULL
          /\ layers[l].plane = NULL
          /\ \E l2 \in ListedLayers : layers[l2].plane = prev.pairing[l]

\* second pass after the driver stopped accepting a paired candidate: the
\* layer, still listed, holds no plane any more
C18_WitnessRejected ==
    /\ PassReturned
    /\ result = "true"
    /\ napplies = 2
    /\ prev.changed
    /\ \E l \in ListedLayers :
          /\ prev.pairing[l] # NULL
          /\ layers[l].plane = NULL

\* ------------------------------------------------------------------ C19
\* the step belongs to a hwc_display_apply call: its entry, or a step of the
\* running pass up to its return or its failed assertion
IsApplyStep == PassRunning \/ PassRunning'

\* planes and layers without their pairing references
PlanesFrame(pl) == [i \in 1..Len(pl) |-> [pl[i] EXCEPT !.layer = NULL]]
LayersFrame(ly) == [l \in DOMAIN ly |-> [ly[l] EXCEPT !.plane = NULL]]

\* C19: a step of hwc_display_apply, in a pass that succeeds or fails,
\* changes nothing but pairing references and the request: every plane
\* keeps its id, mask and property table, every layer its desired
\* properties and its output, and the lists of planes, outputs and layers
\* keep their members and their order.
C19_ApplyFrame ==
    [][IsApplyStep =>
          /\ PlanesFrame(planes') = PlanesFrame(planes)
          /\ LayersFrame(layers') = LayersFrame(layers)
          /\ outputs' = outputs
          /\ dev' = dev]_vars

\* a second pass that failed after it changed the pairing and appended to
\* the request
C19_Witness ==
    /\ PassReturned
    /\ napplies = 2
    /\ result = "false"
    /\ prev.result = "true"
    /\ Pairing # prev.pairing
    /\ \E l \in DOMAIN layers : layers[l].plane # NULL
    /\ Len(req) > Len(entry_req)

\* ------------------------------------------------------------------ C20
\* a pass was entered and the display it ran on still stands
PassEntered == napplies >= 1 /\ pc # "destroyed"

\* the disable writes the current pass has appended so far
DisableCount == IF oidx = 0 THEN pidx - 1 ELSE Len(planes)

\* C20: from the entry of a pass to after its return, with success or with
\* failure, the request still starts with its content at entry, unaltered,
\* followed by the disable writes the pass has appended, each at the position
\* it was appended at; every rollback of the pass went to a cursor at or
\* behind the last disable write.
C20_PrefixPreserved ==
    PassEntered =>
        LET e == Len(entry_req)
            d == DisableCount
        IN  /\ Len(req) >= e + d
            /\ SubSeq(req, 1, e) = entry_req
            /\ \A i \in 1..d : req[e + i] = DisableWrite(i)
            /\ \A j \in 1..Len(log) :
                  log[j].ev = "set_cursor" => log[j].value >= e + Len(planes)

\* a second pass entered on the non-empty request the first one left, which
\* rolled back a rejected candidate and returned
C20_Witness ==
    /\ PassReturned
    /\ napplies = 2
    /\ Len(entry_req) >= 3
    /\ Len(planes) = 2
    /\ \E j \in 1..Len(log) : log[j].ev = "set_cursor"
    /\ \E l \in DOMAIN layers : layers[l].plane # NULL
    /\ Len(req) > Len(entry_req) + Len(planes)

====
